---- MODULE Spec2Model ----
(***************************************************************************)
(* A model of tracer.py: the CallTree node heap, the CallInfo records, the *)
(* Tracer's push/pop/suspend/log_call protocol and the filtered views.     *)
(*                                                                         *)
(* Python objects with identity (CallTree nodes, CallInfo records) live in *)
(* two heaps, `nodes` and `infos`; a reference is an index, 0 is None.     *)
(* Python values passed to and returned by traced functions are strings:   *)
(* "None", an int such as "6", "lock" (an object deepcopy cannot copy),    *)
(* "proxy" / "badproxy" (live TracerProxy instances; the inherited         *)
(* __reduce_ex__ of a "badproxy" raises), "xs" (a live list, whose content *)
(* is objs["xs"]; its deep copy is a private object, held as its content). *)
(***************************************************************************)
EXTENDS Integers, Sequences, FiniteSets, TLC

VARIABLES
    nodes,          \* heap of CallTree objects: [value, parent_node, child_list]
    infos,          \* heap of CallInfo objects: [obj, f, vargs, kwargs, returned, raised]
    current_node,   \* Tracer.current_node (0 = None)
    is_suspended,   \* Tracer.is_suspended
    stack,          \* the log_call invocations in progress, outermost first
    result,         \* what the log_call the last step ended did, as seen by its caller
    view,           \* the tree the last step's filter / for_function / for_object returned
    objs,           \* the live mutable objects of the program: name -> content
    height_call     \* the call of CallTree.height in progress: [pc, self, a, h]

vars == <<nodes, infos, current_node, is_suspended, stack, result, view,
          objs, height_call>>

----------------------------------------------------------------------------
(* Bounds of the model. *)

MaxCalls == 3       \* calls recorded in one behaviour of SpecCalls and SpecViews
MaxDepth == 3       \* nesting depth of log_call
MaxFreeCalls == 2   \* calls recorded in one behaviour of Spec
MaxFreeDepth == 2   \* nesting depth of log_call in Spec
MaxSuspend == 2     \* suspend() calls outstanding
MaxRelease == 1     \* unsuspend() calls in excess of suspend()
MaxTree == 4        \* nodes that add_child builds a tree of in SpecTree
MaxHeightCount == 3 \* iterations of the loop of height that are followed
MaxMutations == 2   \* elements appended to a live list

----------------------------------------------------------------------------
(* Python values. *)

PyNone == "None"
NoneNode == 0

\* the traced callables as (owner, function): f and g are free functions,
\* g is also called as a method of the traced object "a"
Callables == {<<PyNone, "f">>, <<PyNone, "g">>, <<"a", "g">>}
VArgs == {<<"3">>, <<"lock">>}
KwArgs == {<< >>}
Results == {PyNone, "6", "badproxy"}
Errors == {"ValueError"}

\* repr() of an exception class
repr_class(cls) == "<class '" \o cls \o "'>"

\* the value field of a node: absent, a CallInfo reference, or a plain value
NoValue == [t |-> "none", ci |-> 0, py |-> ""]
CIValue(id) == [t |-> "ci", ci |-> id, py |-> ""]
PyValue(v) == [t |-> "py", ci |-> 0, py |-> v]

----------------------------------------------------------------------------
(* The tracer and its heaps as one value, threaded through the methods.    *)
(* Every method yields [st, exc, ...]: the state it leaves and the class   *)
(* of the exception it raises ("None": it returns).                        *)

St == [nodes |-> nodes, infos |-> infos, cur |-> current_node, susp |-> is_suspended]

\* the element of a one-element set: { e(x) : x \in {d} } computes d once
The(S) == CHOOSE x \in S : TRUE

Ok(st) == [st |-> st, exc |-> PyNone]
Err(st, e) == [st |-> st, exc |-> e]

\* CallTree.__init__ with children=None
NewNode(value, parent) == [value |-> value, parent_node |-> parent, child_list |-> << >>]

\* CallTree.add_child_node
add_child_node(ns, self, child) ==
    [ns EXCEPT ![self].child_list = Append(@, child)]

\* mutant: add_child creates the node and does not append it to self's children
add_child_unlinked(ns, self, value) == Append(ns, NewNode(value, self))

\* CallTree.add_child: the new node is Len(ns) + 1
add_child(ns, self, value) ==
    add_child_node(Append(ns, NewNode(value, self)), self, Len(ns) + 1)

\* list.remove(x): the list without its first element equal to x
RECURSIVE list_remove(_, _)
list_remove(q, x) ==
    IF q = << >> THEN << >>
    ELSE IF Head(q) = x THEN Tail(q)
    ELSE <<Head(q)>> \o list_remove(Tail(q), x)

\* mutant: the child is looked for, and removed, by its value
remove_child_by_value(ns, self, child) ==
    LET same == SelectSeq(ns[self].child_list,
                          LAMBDA c : ns[c].value = ns[child].value)
    IN  IF same = << >> THEN [ns |-> ns, exc |-> "ValueError"]
        ELSE [ns |-> [ns EXCEPT ![self].child_list = list_remove(@, Head(same))],
              exc |-> PyNone]

\* CallTree.remove_child_node: [ns, exc]; `in` and list.remove compare nodes
\* by identity, CallTree defining no __eq__
remove_child_node(ns, self, child) ==
    IF \A i \in 1..Len(ns[self].child_list) : ns[self].child_list[i] # child
    THEN [ns |-> ns, exc |-> "ValueError"]
    ELSE [ns |-> [ns EXCEPT ![self].child_list = list_remove(@, child)],
          exc |-> PyNone]

\* Tracer.suspend / Tracer.unsuspend
suspend(st) == [st EXCEPT !.susp = @ + 1]
unsuspend(st) == [st EXCEPT !.susp = @ - 1]

\* TracerProxy.__reduce_ex__ on the live proxy v
reduce_ex(st, v) ==
    LET s1 == suspend(st)
    IN  IF v = "badproxy" THEN Err(s1, "TypeError")
        ELSE Ok(unsuspend(s1))

\* mutant: a live object is stored as it is, not copied
deepcopy_alias(st, v) ==
    IF v = "lock" THEN [st |-> st, exc |-> "TypeError", val |-> v]
    ELSE [st |-> st, exc |-> PyNone, val |-> v]

\* copy.deepcopy of one value: [st, exc, val]
deepcopy(st, v) ==
    IF v = "lock" THEN [st |-> st, exc |-> "TypeError", val |-> v]
    ELSE IF v \in {"proxy", "badproxy"}
         THEN LET r == reduce_ex(st, v)
              IN  [st |-> r.st, exc |-> r.exc, val |-> "proxycopy"]
         ELSE IF v \in DOMAIN objs
              THEN [st |-> st, exc |-> PyNone, val |-> objs[v]]
              ELSE [st |-> st, exc |-> PyNone, val |-> v]

\* copy.deepcopy of a tuple: its elements in order, stopping at the first error
RECURSIVE deepcopy_seq(_, _)
deepcopy_seq(st, s) ==
    IF s = << >> THEN [st |-> st, exc |-> PyNone, val |-> << >>]
    ELSE LET h == deepcopy(st, Head(s))
         IN  IF h.exc # PyNone THEN [st |-> h.st, exc |-> h.exc, val |-> << >>]
             ELSE LET t == deepcopy_seq(h.st, Tail(s))
                  IN  [st |-> t.st, exc |-> t.exc, val |-> <<h.val>> \o t.val]

\* CallInfo.__init__: [st, exc, id]; the new record is Len(infos) + 1
CallInfo(st, obj, f, vargs, kwargs, returned, raised) ==
    LET a == deepcopy_seq(st, vargs)
        k == deepcopy_seq(a.st, kwargs)
        r == deepcopy(k.st, returned)
    IN  IF a.exc # PyNone THEN [st |-> a.st, exc |-> a.exc, id |-> 0]
        ELSE IF k.exc # PyNone THEN [st |-> k.st, exc |-> k.exc, id |-> 0]
        ELSE IF r.exc # PyNone THEN [st |-> r.st, exc |-> r.exc, id |-> 0]
        ELSE [st |-> [r.st EXCEPT !.infos = Append(@,
                        [obj |-> obj, f |-> f, vargs |-> a.val, kwargs |-> k.val,
                         returned |-> r.val, raised |-> raised])],
              exc |-> PyNone,
              id |-> Len(r.st.infos) + 1]

\* mutant: push takes only a positive counter for a suspension
push_if_positive(st, ci) ==
    IF st.susp <= 0
    THEN IF st.cur = NoneNode THEN Err(st, "AttributeError")
         ELSE Ok([st EXCEPT !.nodes = add_child(@, st.cur, CIValue(ci)),
                            !.cur = Len(st.nodes) + 1])
    ELSE Ok(st)

\* Tracer.push
push(st, ci) ==
    IF st.susp = 0
    THEN IF st.cur = NoneNode THEN Err(st, "AttributeError")
         ELSE Ok([st EXCEPT !.nodes = add_child(@, st.cur, CIValue(ci)),
                            !.cur = Len(st.nodes) + 1])
    ELSE Ok(st)

\* mutant: pop leaves the cursor where it is
pop_stay(st) == Ok(st)

\* the tail of Tracer.pop: self.current_node = self.current_node.parent()
pop_move(st) ==
    IF st.cur = NoneNode THEN Err(st, "AttributeError")
    ELSE Ok([st EXCEPT !.cur = st.nodes[st.cur].parent_node])

\* whether self.current_node.value is a CallInfo, so that its attributes can be set
HasRecord(st) == st.cur # NoneNode /\ st.nodes[st.cur].value.t = "ci"

\* Tracer.pop on an active tracer (the body of `if not self.is_suspended`)
pop_active(st, returned, raised) ==
    IF returned # PyNone
    THEN LET c == deepcopy(st, returned)
         IN  IF c.exc # PyNone THEN Err(c.st, c.exc)
             ELSE IF ~HasRecord(c.st) THEN Err(c.st, "AttributeError")
             ELSE pop_move([c.st EXCEPT
                     !.infos[c.st.nodes[c.st.cur].value.ci].returned = c.val,
                     !.nodes = add_child(@, c.st.cur, PyValue(c.val))])
    ELSE IF raised # PyNone
    THEN IF ~HasRecord(st) THEN Err(st, "AttributeError")
         ELSE pop_move([st EXCEPT
                 !.infos[st.nodes[st.cur].value.ci].raised = raised,
                 !.nodes = add_child(@, st.cur,
                                     PyValue("raised " \o repr_class(raised)))])
    ELSE pop_move(st)

\* mutant: pop without the test of is_suspended
pop_unguarded(st, returned, raised) == pop_active(st, returned, raised)

\* Tracer.pop
pop(st, returned, raised) ==
    IF st.susp = 0 THEN pop_active(st, returned, raised) ELSE Ok(st)

\* Tracer.log_call up to the invocation of f: [st, exc, ci]
log_call_enter(st, obj, f, vargs, kwargs) ==
    IF st.susp = 0
    THEN LET c == CallInfo(st, obj, f, vargs, kwargs, PyNone, PyNone)
         IN  IF c.exc # PyNone THEN [st |-> c.st, exc |-> c.exc, ci |-> 0]
             ELSE LET p == push(c.st, c.id)
                  IN  [st |-> p.st, exc |-> p.exc, ci |-> c.id]
    ELSE [st |-> st, exc |-> PyNone, ci |-> 0]

\* Tracer.log_call once f has returned `output`: [st, exc, val]
log_call_return(st, output) ==
    LET p == pop(st, output, PyNone)
    IN  IF p.exc = PyNone THEN [st |-> p.st, exc |-> PyNone, val |-> output]
        ELSE LET q == pop(p.st, PyNone, p.exc)
             IN  [st |-> q.st,
                  exc |-> IF q.exc = PyNone THEN p.exc ELSE q.exc,
                  val |-> PyNone]

\* Tracer.log_call once f has raised an exception of class e: [st, exc, val]
log_call_raise(st, e) ==
    LET q == pop(st, PyNone, e)
    IN  [st |-> q.st,
         exc |-> IF q.exc = PyNone THEN e ELSE q.exc,
         val |-> PyNone]

\* Tracer.call_tree: the log's root, the first node ever created
call_tree == 1

\* mutant: the children are dropped and the cursor stays where it is
clear_keep_cursor(st) == [st EXCEPT !.nodes[call_tree].child_list = << >>]

\* Tracer.clear_call_tree
clear_call_tree(st) ==
    [st EXCEPT !.nodes[call_tree].child_list = << >>, !.cur = call_tree]


----------------------------------------------------------------------------
(* CallTree: the traversals and the pruning projection. *)

\* CallTree.descendants: pre-order, the node itself first
RECURSIVE descendants(_, _)
RECURSIVE descendants_of_all(_, _)
descendants(ns, self) == <<self>> \o descendants_of_all(ns, ns[self].child_list)
descendants_of_all(ns, cs) ==
    IF cs = << >> THEN << >>
    ELSE descendants(ns, Head(cs)) \o descendants_of_all(ns, Tail(cs))

\* CallTree.root_node
RECURSIVE root_node(_, _)
root_node(ns, self) ==
    IF ns[self].parent_node = NoneNode THEN self
    ELSE root_node(ns, ns[self].parent_node)

\* CallTree.ancestors: the node itself first, then its parent, up to the root
RECURSIVE ancestors(_, _)
ancestors(ns, self) ==
    IF ns[self].parent_node = NoneNode THEN <<self>>
    ELSE <<self>> \o ancestors(ns, ns[self].parent_node)

\* a predicate handed to filter: membership of a set of nodes, or the lambdas
\* of for_function (kind "function") and for_object (kind "object")
NodePred(s) == [kind |-> "nodes", key |-> PyNone, s |-> s]
FunctionPred(f) == [kind |-> "function", key |-> f, s |-> {}]
ObjectPred(obj) == [kind |-> "object", key |-> obj, s |-> {}]

\* the CallInfo the lambdas of for_function / for_object read at node n:
\* n's own, or that of n's parent when n holds no CallInfo (0: there is none,
\* and the lambda raises AttributeError)
RecordRead(ns, n) ==
    IF ns[n].value.t = "ci" THEN ns[n].value.ci
    ELSE IF ns[n].parent_node # NoneNode /\ ns[ns[n].parent_node].value.t = "ci"
         THEN ns[ns[n].parent_node].value.ci
         ELSE 0

PredRaises(ns, pred, n) == pred.kind # "nodes" /\ RecordRead(ns, n) = 0

\* predicate(n)
Holds(ns, is, pred, n) ==
    IF pred.kind = "nodes" THEN n \in pred.s
    ELSE IF pred.kind = "function" THEN is[RecordRead(ns, n)].f = pred.key
    ELSE is[RecordRead(ns, n)].obj = pred.key

\* find_shallowest_descendants(root, node) inside CallTree.filter
RECURSIVE find_shallowest_descendants(_, _, _, _, _)
RECURSIVE find_shallowest_of_all(_, _, _, _, _)

\* mutant: the search goes on below a node that matches
find_every_descendant(ns, is, pred, root, node) ==
    (IF node # root /\ Holds(ns, is, pred, node) THEN <<node>> ELSE << >>)
        \o find_shallowest_of_all(ns, is, pred, root, ns[node].child_list)

find_shallowest_descendants(ns, is, pred, root, node) ==
    IF node # root /\ Holds(ns, is, pred, node) THEN <<node>>
    ELSE find_shallowest_of_all(ns, is, pred, root, ns[node].child_list)
find_shallowest_of_all(ns, is, pred, root, cs) ==
    IF cs = << >> THEN << >>
    ELSE find_shallowest_descendants(ns, is, pred, root, Head(cs))
            \o find_shallowest_of_all(ns, is, pred, root, Tail(cs))

\* CallTree.filter: [ns, root], the heap with the new tree and the new tree's root
RECURSIVE filter(_, _, _, _)
RECURSIVE filter_each(_, _, _, _, _)
filter(ns, is, self, pred) ==
    LET withRoot == Append(ns, NewNode(ns[self].value, NoneNode))
        new_root == Len(ns) + 1
    IN  filter_each(withRoot, is, pred, new_root,
                    find_shallowest_descendants(withRoot, is, pred, self, self))
\* the loop of CallTree.filter over the shallowest matching descendants cs
filter_each(ns, is, pred, new_root, cs) ==
    IF cs = << >> THEN [ns |-> ns, root |-> new_root]
    ELSE The({ filter_each(
                  add_child_node([sub.ns EXCEPT ![sub.root].parent_node = new_root],
                                 new_root, sub.root),
                  is, pred, new_root, Tail(cs))
               : sub \in {filter(ns, is, Head(cs), pred)} })

\* a call of filter as its caller sees it: [st, exc, root]; the predicate is
\* applied to every proper descendant of self, and its error ends the call
filter_call(st, self, pred) ==
    IF \E i \in 2..Len(descendants(st.nodes, self)) :
           PredRaises(st.nodes, pred, descendants(st.nodes, self)[i])
    THEN [st |-> st, exc |-> "AttributeError", root |-> NoneNode]
    ELSE LET r == filter(st.nodes, st.infos, self, pred)
         IN  [st |-> [st EXCEPT !.nodes = r.ns], exc |-> PyNone, root |-> r.root]

\* mutant: for_function with the lambda of for_object
for_function_by_owner(st, self, f) == filter_call(st, self, ObjectPred(f))

\* CallTree.for_function
for_function(st, self, f) == filter_call(st, self, FunctionPred(f))

\* the loop of CallTree.for_object over tr.descendants(): every CallInfo is
\* replaced by a fresh one without owner
RECURSIVE scrub(_, _)

\* mutant: the owner is cleared in the record itself, which the log shares
RECURSIVE scrub_in_place(_, _)
scrub_in_place(st, ds) ==
    IF ds = << >> THEN Ok(st)
    ELSE LET v == st.nodes[Head(ds)].value
         IN  IF v.t # "ci" THEN scrub_in_place(st, Tail(ds))
             ELSE scrub_in_place([st EXCEPT !.infos[v.ci].obj = PyNone], Tail(ds))

\* mutant: the loop is missing and the records keep their owner
scrub_nothing(st, ds) == Ok(st)

scrub(st, ds) ==
    IF ds = << >> THEN Ok(st)
    ELSE LET n == Head(ds)
             v == st.nodes[n].value
             old == st.infos[v.ci]
         IN  IF v.t # "ci" THEN scrub(st, Tail(ds))
             ELSE The({ IF c.exc # PyNone THEN Err(c.st, c.exc)
                        ELSE scrub([c.st EXCEPT !.nodes[n].value = CIValue(c.id)],
                                   Tail(ds))
                        : c \in {CallInfo(st, PyNone, old.f, old.vargs, old.kwargs,
                                          old.returned, old.raised)} })

\* CallTree.for_object: [st, exc, root]
for_object(st, self, obj) ==
    LET tr == filter_call(st, self, ObjectPred(obj))
    IN  IF tr.exc # PyNone THEN tr
        ELSE LET sc == scrub(tr.st, descendants(tr.st.nodes, tr.root))
             IN  [st |-> sc.st, exc |-> sc.exc,
                  root |-> IF sc.exc = PyNone THEN tr.root ELSE NoneNode]

----------------------------------------------------------------------------
(* The state machine. *)

NoResult == [called |-> FALSE, fn |-> "none", fnval |-> PyNone,
             kind |-> "none", val |-> PyNone]

NoView == [op |-> "none", key |-> PyNone, pred |-> {}, self |-> NoneNode,
           exc |-> PyNone, root |-> NoneNode, ns |-> << >>, is |-> << >>]

\* the content of the list [1] after k calls of append: one "+" per element
RECURSIVE Grown(_)
Grown(k) == IF k = 0 THEN "[1]" ELSE Grown(k - 1) \o "+"

\* the program's mutable objects as they are created: the list xs = [1]
LiveObjects == [o \in {"xs"} |-> Grown(0)]

\* no call of height is in progress
NoHeightCall == [pc |-> "idle", self |-> NoneNode, a |-> NoneNode, h |-> 0]

\* Tracer.__init__
Init ==
    /\ nodes = <<NewNode(NoValue, NoneNode)>>
    /\ infos = << >>
    /\ current_node = call_tree
    /\ is_suspended = 0
    /\ stack = << >>
    /\ result = NoResult
    /\ view = NoView
    /\ objs = LiveObjects
    /\ height_call = NoHeightCall

SetSt(st) ==
    /\ nodes' = st.nodes
    /\ infos' = st.infos
    /\ current_node' = st.cur
    /\ is_suspended' = st.susp

\* a caller (the program, or a wrapped function in progress) calls log_call;
\* the step ends where f starts to run, or where log_call fails before that
LogCall(obj, f, vargs, kwargs) ==
    /\ Len(stack) < MaxDepth
    /\ Len(infos) < MaxCalls
    /\ LET e == log_call_enter(St, obj, f, vargs, kwargs)
       IN  /\ SetSt(e.st)
           /\ IF e.exc = PyNone
              THEN /\ stack' = Append(stack, [ci |-> e.ci])
                   /\ result' = NoResult
              ELSE /\ stack' = stack
                   /\ result' = [called |-> FALSE, fn |-> "none", fnval |-> PyNone,
                                 kind |-> "raised", val |-> e.exc]
    /\ view' = NoView
    /\ UNCHANGED <<objs, height_call>>

\* the innermost wrapped function returns r, and log_call runs to its end
Return(r) ==
    /\ stack # << >>
    /\ LET x == log_call_return(St, r)
       IN  /\ SetSt(x.st)
           /\ result' = [called |-> TRUE, fn |-> "returned", fnval |-> r,
                         kind |-> IF x.exc = PyNone THEN "returned" ELSE "raised",
                         val |-> IF x.exc = PyNone THEN x.val ELSE x.exc]
    /\ stack' = SubSeq(stack, 1, Len(stack) - 1)
    /\ view' = NoView
    /\ UNCHANGED <<objs, height_call>>

\* the innermost wrapped function raises an e, and log_call runs to its end
Raise(e) ==
    /\ stack # << >>
    /\ LET x == log_call_raise(St, e)
       IN  /\ SetSt(x.st)
           /\ result' = [called |-> TRUE, fn |-> "raised", fnval |-> e,
                         kind |-> "raised", val |-> x.exc]
    /\ stack' = SubSeq(stack, 1, Len(stack) - 1)
    /\ view' = NoView
    /\ UNCHANGED <<objs, height_call>>

Suspend ==
    /\ is_suspended < MaxSuspend
    /\ SetSt(suspend(St))
    /\ result' = NoResult
    /\ view' = NoView
    /\ UNCHANGED <<stack, objs, height_call>>

Unsuspend ==
    /\ is_suspended > -MaxRelease
    /\ SetSt(unsuspend(St))
    /\ result' = NoResult
    /\ view' = NoView
    /\ UNCHANGED <<stack, objs, height_call>>

Clear ==
    /\ SetSt(clear_call_tree(St))
    /\ result' = NoResult
    /\ view' = NoView
    /\ UNCHANGED <<stack, objs, height_call>>

\* the values the tests give to tree nodes: absent, or a label
TreeValues == {NoValue, PyValue("x")}

\* client code calls add_child on a node of a tree it builds
AddChild(self, value) ==
    /\ Len(nodes) < MaxTree
    /\ nodes' = add_child(nodes, self, value)
    /\ view' = NoView
    /\ UNCHANGED <<infos, current_node, is_suspended, stack, result, objs, height_call>>

\* what a view call hands to its caller: the new tree's root in the heaps as
\* the call left them (ns, is)
Viewed(op, key, pred, self, r) ==
    [op |-> op, key |-> key, pred |-> pred, self |-> self,
     exc |-> r.exc, root |-> r.root, ns |-> r.st.nodes, is |-> r.st.infos]

\* the caller of a view looks at the tree it got (print_call_tree prints it)
\* and drops it: the objects the call created are garbage
LookAt(v, r) ==
    /\ view' = v
    /\ is_suspended' = r.st.susp
    /\ current_node' = r.st.cur
    /\ result' = NoResult
    /\ UNCHANGED <<nodes, infos, stack, objs, height_call>>

\* client code calls self.filter(lambda n: n in s)
Filter(self, s) ==
    LET r == filter_call(St, self, NodePred(s))
    IN  LookAt(Viewed("filter", PyNone, s, self, r), r)

\* print_call_tree of a traced function: tracer_obj.call_tree.for_function(f)
ForFunction(f) ==
    LET r == for_function(St, call_tree, f)
    IN  LookAt(Viewed("for_function", f, {}, call_tree, r), r)

\* TracerProxy.print_call_tree: self.__tracer__.call_tree.for_object(self)
ForObject(obj) ==
    LET r == for_object(St, call_tree, obj)
    IN  LookAt(Viewed("for_object", obj, {}, call_tree, r), r)

\* the program (a wrapped function in progress, or a caller) appends to the
\* live list o
Mutate(o) ==
    /\ \E k \in 0..(MaxMutations - 1) : objs[o] = Grown(k)
    /\ objs' = [objs EXCEPT ![o] = @ \o "+"]
    /\ result' = NoResult
    /\ view' = NoView
    /\ UNCHANGED <<nodes, infos, current_node, is_suspended, stack, height_call>>

\* client code calls self.remove_child_node(child) with a node it holds
RemoveChildNode(self, child) ==
    /\ LET r == remove_child_node(nodes, self, child)
       IN  /\ nodes' = r.ns
           /\ result' = [called |-> FALSE, fn |-> "remove_child_node",
                         fnval |-> PyNone,
                         kind |-> IF r.exc = PyNone THEN "returned" ELSE "raised",
                         val |-> r.exc]
    /\ view' = NoView
    /\ UNCHANGED <<infos, current_node, is_suspended, stack, objs, height_call>>

\* client code calls self.height(): h = 0; a = self
HeightCall(self) ==
    /\ height_call.pc # "while"
    /\ height_call' = [pc |-> "while", self |-> self, a |-> self, h |-> 0]
    /\ UNCHANGED <<nodes, infos, current_node, is_suspended, stack, result, view, objs>>

\* one test of `while a.parent() is not None`, with the loop's body
\* (a = self.parent(); h += 1) or the return of h that follows it
HeightLoop ==
    /\ height_call.pc = "while"
    /\ height_call.h < MaxHeightCount
    /\ IF nodes[height_call.a].parent_node # NoneNode
       THEN height_call' = [height_call EXCEPT
                               !.a = nodes[height_call.self].parent_node,
                               !.h = @ + 1]
       ELSE height_call' = [height_call EXCEPT !.pc = "return"]
    /\ UNCHANGED <<nodes, infos, current_node, is_suspended, stack, result, view, objs>>

\* the nodes n with isinstance(n.value, CallInfo)
RecordNodes == {n \in 1..Len(nodes) : nodes[n].value.t = "ci"}

Enter ==
    \E c \in Callables, vargs \in VArgs, kwargs \in KwArgs :
        LogCall(c[1], c[2], vargs, kwargs)

Exit ==
    \/ \E r \in Results : Return(r)
    \/ \E e \in Errors : Raise(e)

\* traced functions that only call traced functions, return and raise
NextCalls == Enter \/ Exit

SpecCalls == Init /\ [][NextCalls]_vars

\* the same, and the program looks at the log through the two views
NextViews ==
    \/ Enter
    \/ Exit
    \/ \E c \in Callables : ForFunction(c[2])
    \/ \E c \in Callables : ForObject(c[1])
    \/ \E s \in {RecordNodes, 1..Len(nodes) \ RecordNodes} : Filter(call_tree, s)

SpecViews == Init /\ [][NextViews]_vars

\* a client that builds a tree with add_child and filters it
NextTree ==
    \/ \E n \in 1..Len(nodes), v \in TreeValues : AddChild(n, v)
    \/ \E n \in 1..Len(nodes) :
          \E s \in SUBSET {descendants(nodes, n)[i] : i \in 1..Len(descendants(nodes, n))} :
              Filter(n, s)

SpecTree == Init /\ [][NextTree]_vars

\* traced functions that are handed the live list, append to it and return it
SnapArgs == {<<"xs">>, <<"3">>}
SnapResults == {"xs", PyNone}

NextSnap ==
    \/ \E vargs \in SnapArgs, kwargs \in KwArgs : LogCall(PyNone, "f", vargs, kwargs)
    \/ \E r \in SnapResults : Return(r)
    \/ \E o \in DOMAIN objs : Mutate(o)

SpecSnap == Init /\ [][NextSnap]_vars

\* a client that builds a tree with add_child and takes nodes out of it
NextEdit ==
    \/ \E n \in 1..Len(nodes), v \in TreeValues : AddChild(n, v)
    \/ \E n, c \in 1..Len(nodes) : RemoveChildNode(n, c)

SpecEdit == Init /\ [][NextEdit]_vars

\* a client that builds a tree with add_child and asks nodes for their height
NextHeight ==
    \/ \E n \in 1..Len(nodes), v \in TreeValues :
          height_call.pc # "while" /\ AddChild(n, v)
    \/ \E n \in 1..Len(nodes) : HeightCall(n)
    \/ HeightLoop

SpecHeight == Init /\ [][NextHeight]_vars

\* the callables of Spec: a free function and a method of the traced object
FreeCallables == {<<PyNone, "f">>, <<"a", "g">>}

\* logging calls, with clear_call_tree called by the program and by wrapped
\* functions in progress; nobody calls suspend() or unsuspend()
ClearResults == {PyNone, "6"}

NextClear ==
    \/ /\ Len(infos) < MaxFreeCalls
       /\ Len(stack) < MaxFreeDepth
       /\ \E c \in FreeCallables, vargs \in VArgs, kwargs \in KwArgs :
              LogCall(c[1], c[2], vargs, kwargs)
    \/ \E r \in ClearResults : Return(r)
    \/ \E e \in Errors : Raise(e)
    \/ Clear

SpecClear == Init /\ [][NextClear]_vars

\* any caller, any wrapped function: the tracer's own methods too
Next ==
    \/ /\ Len(infos) < MaxFreeCalls
       /\ Len(stack) < MaxFreeDepth
       /\ \E c \in FreeCallables, vargs \in VArgs, kwargs \in KwArgs :
              LogCall(c[1], c[2], vargs, kwargs)
    \/ Exit
    \/ Suspend
    \/ Unsuspend
    \/ Clear

Spec == Init /\ [][Next]_vars

----------------------------------------------------------------------------
(* Vocabulary of the properties. *)

\* the number of parent links from node n up to a node without parent
RECURSIVE Links(_)
Links(n) == IF nodes[n].parent_node = NoneNode THEN 0
            ELSE 1 + Links(nodes[n].parent_node)

\* the node whose value is the CallInfo ci (push creates exactly one)
NodeOf(ci) == CHOOSE n \in 1..Len(nodes) : nodes[n].value = CIValue(ci)

Top == stack[Len(stack)]

\* the step just taken finished a log_call whose wrapped function returned r
Returned(r) == result'.called /\ result'.fn = "returned" /\ result'.fnval = r
\* the step just taken finished a log_call whose wrapped function raised e
Raised(e) == result'.called /\ result'.fn = "raised" /\ result'.fnval = e
\* the step just taken entered a log_call and started its wrapped function
Entered == Len(stack') = Len(stack) + 1

\* values deepcopy copies, with their copy
Copyable(v) == v \notin {"lock", "proxy", "badproxy"}

\* the call in progress at the top of the stack is recorded at the cursor and
\* has made no traced call so far
PlainCallAtCursor ==
    /\ is_suspended = 0
    /\ stack # << >>
    /\ Top.ci # 0
    /\ current_node = NodeOf(Top.ci)
    /\ nodes[current_node].child_list = << >>

\* the step appended exactly the leaf `leaf` to the record node n and nothing else
GainsOnlyLeaf(n, leaf) ==
    /\ Len(nodes') = Len(nodes) + 1
    /\ nodes'[n].child_list = <<Len(nodes')>>
    /\ nodes'[Len(nodes')] = NewNode(leaf, n)
    /\ \A m \in 1..Len(nodes) : m # n => nodes'[m] = nodes[m]
    /\ nodes'[n].value = nodes[n].value /\ nodes'[n].parent_node = nodes[n].parent_node

\* entering a call on an active tracer gives the cursor exactly one new child,
\* holding the call's fresh record, and moves the cursor to it
EnterRecords ==
    (Entered /\ is_suspended = 0) =>
        /\ Len(nodes') = Len(nodes) + 1 /\ Len(infos') = Len(infos) + 1
        /\ nodes'[current_node].child_list =
               Append(nodes[current_node].child_list, Len(nodes'))
        /\ nodes'[Len(nodes')] = NewNode(CIValue(Len(infos')), current_node)
        /\ \A m \in 1..Len(nodes) : m # current_node => nodes'[m] = nodes[m]
        /\ infos'[Len(infos')].returned = PyNone /\ infos'[Len(infos')].raised = PyNone
        /\ stack'[Len(stack')].ci = Len(infos')
        /\ current_node' = Len(nodes')

\* what a successful plain call leaves for result r
ReturnRecorded(r) ==
    (Returned(r) /\ PlainCallAtCursor) =>
        /\ infos'[Top.ci] = [infos[Top.ci] EXCEPT !.returned = r]
        /\ GainsOnlyLeaf(current_node, PyValue(r))
        /\ current_node' = nodes[current_node].parent_node
        /\ result'.kind = "returned" /\ result'.val = r

----------------------------------------------------------------------------
(* C1. Balance: whenever no log_call is in progress, the cursor is back at *)
(* the node it started from, the root of the log (under SpecCalls every    *)
(* outermost call starts there).                                           *)
C1_Balance == stack = << >> => current_node = call_tree

----------------------------------------------------------------------------
----------------------------------------------------------------------------
(* C9. Failed call recording: a plain call on an active tracer whose       *)
(* function raises K leaves the record with raised = K and returned        *)
(* absent, exactly one leaf child holding the marker "raised K", and the   *)
(* caller of log_call sees K.                                              *)
C9_RaiseRecorded ==
    [][\A e \in Errors :
         (Raised(e) /\ PlainCallAtCursor) =>
            /\ infos'[Top.ci] = [infos[Top.ci] EXCEPT !.raised = e]
            /\ infos'[Top.ci].returned = PyNone
            /\ GainsOnlyLeaf(current_node, PyValue("raised " \o e))
            /\ current_node' = nodes[current_node].parent_node
            /\ result'.kind = "raised" /\ result'.val = e]_vars

----------------------------------------------------------------------------
(* C10. Tree depth equals call nesting depth: while the tracer is active   *)
(* the cursor is as many parent links below the log root as there are      *)
(* log_call invocations in progress, and the record node of the i-th       *)
(* invocation in progress sits at depth i below the root.                  *)
C10_DepthIsNesting ==
    /\ is_suspended = 0 =>
          /\ current_node # NoneNode
          /\ Links(current_node) = Len(stack)
          /\ nodes[call_tree].parent_node = NoneNode
    /\ \A i \in 1..Len(stack) :
          stack[i].ci # 0 =>
             /\ Links(NodeOf(stack[i].ci)) = i
             /\ (is_suspended = 0 /\ i = Len(stack)) => current_node = NodeOf(stack[i].ci)

\* three calls nested in one another, the cursor three links below the root
C10_Witness ==
    /\ is_suspended = 0 /\ Len(stack) = 3
    /\ Links(current_node) = 3

----------------------------------------------------------------------------
(* C2. log_call is observational: the call the last step ended gave its    *)
(* caller exactly what the wrapped function did (the value it returned,    *)
(* the error it raised), and log_call raised nothing of its own.           *)
C2_Observational ==
    result.kind # "none" =>
        /\ result.called
        /\ result.kind = result.fn
        /\ result.val = result.fnval

----------------------------------------------------------------------------
(* C3. Suspension: in a state with is_suspended > 0, push and pop are      *)
(* no-ops, and a step of log_call, suspend or unsuspend leaves the trees,  *)
(* the records and the cursor as they are; log_call still starts the       *)
(* function and hands back what it returned or raised; an unsuspend that   *)
(* leaves the counter above 0 keeps all this so, and a record is only      *)
(* written by a step taken with the counter at 0.                          *)

\* the step is one of log_call, suspend, unsuspend (clear_call_tree changes
\* none of stack, is_suspended, result)
TracerStep ==
    stack' # stack \/ is_suspended' # is_suspended \/ result'.kind # "none"

C3_SuspendedIsInvisible ==
    [][/\ is_suspended > 0 =>
            /\ \A ci \in 1..MaxCalls : push(St, ci) = Ok(St)
            /\ \A r \in Results : pop(St, r, PyNone) = Ok(St)
            /\ \A e \in Errors : pop(St, PyNone, e) = Ok(St)
       /\ (is_suspended > 0 /\ TracerStep) =>
            /\ UNCHANGED <<nodes, infos, current_node>>
            /\ result'.kind # "none" =>
                  /\ result'.called
                  /\ result'.kind = result'.fn /\ result'.val = result'.fnval
       /\ (TracerStep /\ <<nodes, infos>>' # <<nodes, infos>>) => is_suspended = 0
      ]_vars

\* a call entered under two nested suspensions, inside a recorded call: the
\* cursor still is the recorded call's node
C3_Witness ==
    /\ is_suspended = 2 /\ Len(stack) = 2
    /\ stack[1].ci # 0 /\ stack[2].ci = 0
    /\ current_node = NodeOf(stack[1].ci)
    /\ nodes[current_node].child_list = << >>

----------------------------------------------------------------------------
(* Vocabulary of the views. *)

Range(q) == {q[i] : i \in 1..Len(q)}
NoDuplicates(q) == \A i, j \in 1..Len(q) : q[i] = q[j] => i = j

\* d is a proper descendant of a in heap ns
IsBelow(ns, a, d) == d # a /\ d \in Range(descendants(ns, a))

\* the proper descendants of self that satisfy pred, in pre-order
Matching(ns, is, self, pred) ==
    SelectSeq(Tail(descendants(ns, self)), LAMBDA n : Holds(ns, is, pred, n))

\* the predicate of the view just taken
ViewPred ==
    IF view.op = "filter" THEN NodePred(view.pred)
    ELSE IF view.op = "for_function" THEN FunctionPred(view.key)
    ELSE ObjectPred(view.key)

ViewTaken == view.op # "none" /\ view.exc = PyNone

\* the original's matching nodes and the result's nodes, both in pre-order:
\* M[i] is shown by V[i + 1], the result's root V[1] shows self
ViewM == Matching(nodes, infos, view.self, ViewPred)
ViewV == descendants(view.ns, view.root)
Original(k) == IF k = 1 THEN view.self ELSE ViewM[k - 1]

\* the matching nodes below o with no matching node in between, as positions of V
ShallowestBelow(o) ==
    SelectSeq([k \in 1..Len(ViewM) |-> k + 1],
              LAMBDA k : /\ IsBelow(nodes, o, Original(k))
                         /\ ~\E j \in 2..Len(ViewM) + 1 :
                               /\ IsBelow(nodes, o, Original(j))
                               /\ IsBelow(nodes, Original(j), Original(k)))

----------------------------------------------------------------------------
(* C4. Pruning correctness of filter: the result's root carries self's     *)
(* value whether or not self matches; the result has exactly one node for  *)
(* each matching proper descendant of self, in the same pre-order and with *)
(* the same value, and none for any other node; one such node is above     *)
(* another in the result iff it is so in the original; the children of     *)
(* every result node are its original's shallowest matching descendants,   *)
(* in order, and point back to it as their parent.                         *)
C4_Pruning ==
    (view.op = "filter" /\ view.exc = PyNone) =>
        /\ view.ns[view.root].value = nodes[view.self].value
        /\ view.ns[view.root].parent_node = NoneNode
        /\ Len(ViewV) = Len(ViewM) + 1
        /\ NoDuplicates(ViewV)
        /\ \A k \in 1..Len(ViewV) :
              /\ view.ns[ViewV[k]].value = nodes[Original(k)].value
              /\ view.ns[ViewV[k]].child_list =
                    [i \in 1..Len(ShallowestBelow(Original(k))) |->
                        ViewV[ShallowestBelow(Original(k))[i]]]
              /\ \A c \in Range(view.ns[ViewV[k]].child_list) :
                    view.ns[c].parent_node = ViewV[k]
        /\ \A j, k \in 2..Len(ViewV) :
              IsBelow(view.ns, ViewV[j], ViewV[k])
                  <=> IsBelow(nodes, Original(j), Original(k))

\* root -> A -> B -> C filtered at the root by a predicate that holds of the
\* root, of B and of C: the result is root' -> B' -> C'
C4_Witness ==
    /\ view.op = "filter" /\ view.self = 1 /\ view.pred = {1, 3, 4}
    /\ Len(nodes) = 4
    /\ nodes[1].child_list = <<2>> /\ nodes[2].child_list = <<3>>
    /\ nodes[3].child_list = <<4>>
    /\ view.root = 5 /\ Len(view.ns) = 7
    /\ view.ns[5].child_list = <<6>> /\ view.ns[6].child_list = <<7>>
    /\ view.ns[7].child_list = << >>

----------------------------------------------------------------------------
(* C5. filter, for_function and for_object build a new, independent tree:  *)
(* every node of the result was created by the call, the result's parent   *)
(* and child references stay inside the result, and the call leaves every  *)
(* node and every record that existed before it as it was (children,       *)
(* parent, value; the records of the log keep their owner).                *)
C5_NewIndependentTree ==
    ViewTaken =>
        /\ SubSeq(view.ns, 1, Len(nodes)) = nodes
        /\ SubSeq(view.is, 1, Len(infos)) = infos
        /\ \A v \in Range(ViewV) :
              /\ v > Len(nodes)
              /\ view.ns[v].parent_node \in (Range(ViewV) \ {v}) \cup {NoneNode}
              /\ view.ns[v].parent_node = NoneNode <=> v = view.root
        /\ \A n \in Len(nodes) + 1..Len(view.ns) : n \in Range(ViewV)

\* for_object("a") on a log that holds a finished call of a.g
C5_Witness ==
    /\ ViewTaken /\ view.op = "for_object" /\ view.key = "a"
    /\ Len(ViewV) = 3 /\ stack = << >>
    /\ \E i \in 1..Len(infos) : infos[i].obj = "a" /\ infos[i].returned = "6"
    /\ Len(view.is) = Len(infos) + 1

----------------------------------------------------------------------------
(* C6. for_function(f) keeps each call of f with its outcome leaf and      *)
(* nothing else: the result has one node for each node of the log that is  *)
(* a record of f or the outcome leaf of a record of f; each node of the    *)
(* result below its root is such a record, or a leaf that hangs under such *)
(* a record and holds that record's outcome; and on the log of f calling g *)
(* calling f the result is root -> f -> (f -> leaf, leaf).                 *)

\* the trace of f calling g calling f, each returning 6
FGFLog ==
    /\ stack = << >> /\ Len(nodes) = 7 /\ Len(infos) = 3
    /\ infos[1].f = "f" /\ infos[2].f = "g" /\ infos[3].f = "f"
    /\ nodes[call_tree].child_list = <<2>>
    /\ nodes[2].value = CIValue(1) /\ nodes[2].child_list = <<3, 7>>
    /\ nodes[3].value = CIValue(2) /\ nodes[3].child_list = <<4, 6>>
    /\ nodes[4].value = CIValue(3) /\ nodes[4].child_list = <<5>>
    /\ \A n \in 5..7 : nodes[n].value = PyValue("6")

\* the outcome leaf value of record r
OutcomeLeaf(r) ==
    IF r.raised # PyNone THEN PyValue("raised " \o repr_class(r.raised))
    ELSE PyValue(r.returned)

C6_ForFunction ==
    (ViewTaken /\ view.op = "for_function") =>
        /\ Len(ViewV) = Len(ViewM) + 1
        /\ \A k \in 2..Len(ViewV) :
              LET v == view.ns[ViewV[k]]
                  up == view.ns[v.parent_node]
              IN  \/ v.value.t = "ci" /\ view.is[v.value.ci].f = view.key
                  \/ /\ v.value.t = "py" /\ v.child_list = << >>
                     /\ up.value.t = "ci" /\ view.is[up.value.ci].f = view.key
                     /\ v.value = OutcomeLeaf(view.is[up.value.ci])
                     /\ nodes[Original(k)].parent_node # NoneNode
                     /\ nodes[nodes[Original(k)].parent_node].value = up.value
        /\ (FGFLog /\ view.key = "f") =>
              /\ Len(view.ns) = 12 /\ view.root = 8
              /\ view.ns[8] = [value |-> NoValue, parent_node |-> NoneNode,
                               child_list |-> <<9>>]
              /\ view.ns[9] = [value |-> CIValue(1), parent_node |-> 8,
                               child_list |-> <<10, 12>>]
              /\ view.ns[10] = [value |-> CIValue(3), parent_node |-> 9,
                                child_list |-> <<11>>]
              /\ view.ns[11] = NewNode(PyValue("6"), 10)
              /\ view.ns[12] = NewNode(PyValue("6"), 9)

C6_Witness == ViewTaken /\ view.op = "for_function" /\ view.key = "f" /\ FGFLog

----------------------------------------------------------------------------
(* C7. Object-view scrubbing: in the tree for_object(obj) returns, every   *)
(* node that holds a record holds one without owner whose other fields     *)
(* equal those of the record of the log it shows, that record's owner in   *)
(* the log is obj, and every other node is the outcome leaf of such a      *)
(* record.                                                                 *)
C7_Scrubbed ==
    (ViewTaken /\ view.op = "for_object") =>
        /\ Len(ViewV) = Len(ViewM) + 1
        /\ \A k \in 1..Len(ViewV) :
              LET v == view.ns[ViewV[k]]
                  o == nodes[Original(k)]
              IN  /\ v.value.t = o.value.t
                  /\ v.value.t = "ci" =>
                        /\ view.is[v.value.ci].obj = PyNone
                        /\ view.is[v.value.ci] =
                              [infos[o.value.ci] EXCEPT !.obj = PyNone]
                        /\ infos[o.value.ci].obj = view.key
                  /\ v.value.t = "py" =>
                        /\ v.value = o.value
                        /\ infos[nodes[o.parent_node].value.ci].obj = view.key

\* for_object("a") shows a finished call of a.g made inside a call of f
C7_Witness ==
    /\ ViewTaken /\ view.op = "for_object" /\ view.key = "a"
    /\ Len(infos) = 2 /\ infos[1].obj = PyNone /\ infos[2].obj = "a"
    /\ nodes[2].child_list = <<3>> /\ nodes[3].value = CIValue(2)
    /\ infos[2].returned = "6"
    /\ Len(ViewV) = 3
    /\ view.is[view.ns[ViewV[2]].value.ci].obj = PyNone

----------------------------------------------------------------------------
(* C11. height() ends and returns the number of parent links between the   *)
(* node and the root: every iteration of its loop moves `a` one link up    *)
(* (so the loop ends at the root), and the value returned is Links(self),  *)
(* 0 at the root.                                                          *)
C11_HeightCountsLinks ==
    /\ [][(height_call.pc = "while" /\ height_call'.pc = "while"
            /\ height_call'.self = height_call.self
            /\ height_call'.h = height_call.h + 1)
           => Links(height_call'.a) = Links(height_call.a) - 1]_vars
    /\ [](height_call.pc = "return" => height_call.h = Links(height_call.self))

----------------------------------------------------------------------------
(* C12. A record's outcome is written exactly once: a record is created    *)
(* with returned and raised absent; the step that ends its call sets       *)
(* returned (the snapshot of the result) and not raised when the function  *)
(* returned, raised and not returned when it raised; the records of calls  *)
(* still in progress have no outcome; and no step changes any record but   *)
(* the one of the call it ends.                                            *)
C12_OutcomeOnce ==
    [][/\ (Entered /\ is_suspended = 0) =>
              /\ infos'[Len(infos')].returned = PyNone
              /\ infos'[Len(infos')].raised = PyNone
       /\ \A r \in Results :
              (Returned(r) /\ Top.ci # 0) =>
                  /\ infos'[Top.ci].raised = PyNone
                  /\ r # PyNone => infos'[Top.ci].returned # PyNone
       /\ \A e \in Errors :
              (Raised(e) /\ Top.ci # 0) =>
                  /\ infos'[Top.ci].raised = e
                  /\ infos'[Top.ci].returned = PyNone
       /\ \A i \in 1..Len(infos) :
              (stack = << >> \/ Entered \/ i # Top.ci) => infos'[i] = infos[i]
       /\ \A k \in 1..Len(stack') :
              stack'[k].ci # 0 =>
                  /\ infos'[stack'[k].ci].returned = PyNone
                  /\ infos'[stack'[k].ci].raised = PyNone
      ]_vars

----------------------------------------------------------------------------
(* Vocabulary of C13: what a whole log_call does to a tracer, as its       *)
(* caller and a reader of the log see it.                                  *)

\* a tracer as Tracer() creates it, suspended susp times
FreshSt(susp) == [nodes |-> <<NewNode(NoValue, NoneNode)>>, infos |-> << >>,
                  cur |-> call_tree, susp |-> susp]

\* the tracer of the state the step leads to
StNext == [nodes |-> nodes', infos |-> infos', cur |-> current_node',
           susp |-> is_suspended']

\* the tree below node n, with the records in place of their references
RECURSIVE Shape(_, _)
Shape(st, n) ==
    [value |-> IF st.nodes[n].value.t = "ci"
               THEN [t |-> "ci", rec |-> st.infos[st.nodes[n].value.ci]]
               ELSE [t |-> st.nodes[n].value.t, py |-> st.nodes[n].value.py],
     children |-> [i \in 1..Len(st.nodes[n].child_list) |->
                       Shape(st, st.nodes[n].child_list[i])]]

\* log_call(obj, f, vargs, kwargs) with f returning out (kind "returned") or
\* raising out (kind "raised") without calling anything traced
RunCall(st, obj, f, vargs, kwargs, kind, out) ==
    LET e == log_call_enter(st, obj, f, vargs, kwargs)
    IN  IF e.exc # PyNone THEN [st |-> e.st, exc |-> e.exc, val |-> PyNone]
        ELSE IF kind = "returned" THEN log_call_return(e.st, out)
        ELSE log_call_raise(e.st, out)

Observed(r) ==
    [exc |-> r.exc, val |-> r.val, log |-> Shape(r.st, call_tree),
     at_root |-> r.st.cur = call_tree, susp |-> r.st.susp]

Outcomes == {<<"returned", r>> : r \in Results} \cup {<<"raised", e>> : e \in Errors}

(* C13. clear() leaves the log root without children and the cursor at the *)
(* root, does not change is_suspended, creates no new root (the root is    *)
(* the node it was, with its value and no parent), and every log_call made *)
(* next (the method call a.g, with every argument and every outcome) does *)
(* to the tracer what it does to a new tracer with the same is_suspended.  *)
C13_ClearResets ==
    [][Clear =>
          /\ nodes'[call_tree].child_list = << >>
          /\ current_node' = call_tree
          /\ is_suspended' = is_suspended
          /\ Len(nodes') = Len(nodes)
          /\ nodes'[call_tree] = [nodes[call_tree] EXCEPT !.child_list = << >>]
          /\ \A c \in {<<"a", "g">>}, vargs \in VArgs, kwargs \in KwArgs, o \in Outcomes :
                 Observed(RunCall(StNext, c[1], c[2], vargs, kwargs, o[1], o[2]))
                   = Observed(RunCall(FreshSt(is_suspended), c[1], c[2], vargs,
                                      kwargs, o[1], o[2]))
      ]_vars

\* clear() was called by a wrapped function of a suspended tracer whose log
\* had a record: the record's node is no child of the root any more
C13_Witness ==
    /\ nodes[call_tree].child_list = << >> /\ current_node = call_tree
    /\ Len(nodes) >= 2 /\ nodes[2].parent_node = call_tree
    /\ is_suspended = 1 /\ stack # << >>

----------------------------------------------------------------------------
(* C14, as stated: once unsuspend() has been called more often than        *)
(* suspend() (is_suspended < 0), push and pop are no-ops and the tracer is *)
(* suspended in every later state, whatever is called on it.               *)
C14_SuspendedForever ==
    [][is_suspended < 0 =>
          /\ \A ci \in 1..MaxCalls : push(St, ci) = Ok(St)
          /\ \A r \in Results : pop(St, r, PyNone) = Ok(St)
          /\ \A e \in Errors : pop(St, PyNone, e) = Ok(St)
          /\ is_suspended' # 0
      ]_vars

(* C14, amended: while is_suspended is negative push and pop are no-ops    *)
(* and log_call leaves the log, the cursor and the counter as they are;    *)
(* only suspend() brings the counter back to 0, from -1, and the tracer    *)
(* is active again from then on.                                           *)
C14_SuspendedWhileNegative ==
    [][is_suspended < 0 =>
          /\ \A ci \in 1..MaxCalls : push(St, ci) = Ok(St)
          /\ \A r \in Results : pop(St, r, PyNone) = Ok(St)
          /\ \A e \in Errors : pop(St, PyNone, e) = Ok(St)
          /\ (stack' # stack \/ result'.kind # "none") =>
                 UNCHANGED <<nodes, infos, current_node, is_suspended>>
          /\ is_suspended' = 0 => (is_suspended = -1 /\ StNext = suspend(St))
      ]_vars

\* a log_call made after one unsuspend() too many runs its function and
\* leaves no record
C14_Witness ==
    /\ is_suspended = -1
    /\ Len(stack) = 1 /\ stack[1].ci = 0
    /\ Len(nodes) = 1 /\ infos = << >> /\ current_node = call_tree

----------------------------------------------------------------------------
(* C15. remove_child_node(child) raises ValueError and changes nothing     *)
(* when child is not, by identity, one of self's children (a node with an  *)
(* equal value elsewhere, or a deeper descendant, is rejected); when it is *)
(* a child, that node and no other leaves self's child list, the other     *)
(* children stay in their order, and no other node changes.                *)
C15_RemoveChild ==
    [][\A self, child \in 1..Len(nodes) :
          RemoveChildNode(self, child) =>
             IF \E i \in 1..Len(nodes[self].child_list) :
                    nodes[self].child_list[i] = child
             THEN /\ result'.kind = "returned"
                  /\ nodes'[self].child_list =
                         SelectSeq(nodes[self].child_list, LAMBDA c : c # child)
                  /\ nodes'[self].value = nodes[self].value
                  /\ nodes'[self].parent_node = nodes[self].parent_node
                  /\ Len(nodes') = Len(nodes)
                  /\ \A m \in 1..Len(nodes) : m # self => nodes'[m] = nodes[m]
             ELSE /\ result'.kind = "raised" /\ result'.val = "ValueError"
                  /\ nodes' = nodes
      ]_vars

\* the middle one of the root's three children was removed
C15_Witness ==
    /\ result.fn = "remove_child_node" /\ result.kind = "returned"
    /\ Len(nodes) = 4
    /\ nodes[call_tree].child_list = <<2, 4>>
    /\ nodes[3].parent_node = call_tree

----------------------------------------------------------------------------
\* the positions of node n in the child list of node p
Positions(p, n) == {i \in 1..Len(nodes[p].child_list) : nodes[p].child_list[i] = n}

\* the node reached from n by k parent links (0: the links end before)
RECURSIVE Up(_, _)
Up(n, k) == IF k = 0 \/ n = NoneNode THEN n ELSE Up(nodes[n].parent_node, k - 1)

(* C16. Tree ownership: every node that has a parent is in that parent's   *)
(* child list at exactly one position and in no other node's child list;   *)
(* every node of a child list has the list's owner as its parent; and the  *)
(* parent links of every node end (no cycle).                              *)
C16_Ownership ==
    /\ \A n \in 1..Len(nodes) :
          nodes[n].parent_node # NoneNode =>
              /\ Cardinality(Positions(nodes[n].parent_node, n)) = 1
              /\ \A p \in 1..Len(nodes) :
                     p # nodes[n].parent_node => Positions(p, n) = {}
    /\ \A p \in 1..Len(nodes) :
          \A i \in 1..Len(nodes[p].child_list) :
              nodes[nodes[p].child_list[i]].parent_node = p
    /\ \A n \in 1..Len(nodes) : Up(n, Len(nodes)) = NoneNode

----------------------------------------------------------------------------
(* C17. Leaf/ancestor consistency: every node n is one of the descendants  *)
(* of its root_node(), and one of the ancestors of each of its own         *)
(* descendants; ancestors() starts with the node and ends with its root,   *)
(* and descendants() starts with the node and lists each child's subtree   *)
(* in the order of the children.                                           *)
C17_LeafAncestor ==
    \A n \in 1..Len(nodes) :
        /\ n \in Range(descendants(nodes, root_node(nodes, n)))
        /\ \A d \in Range(descendants(nodes, n)) : n \in Range(ancestors(nodes, d))
        /\ Head(ancestors(nodes, n)) = n
        /\ ancestors(nodes, n)[Len(ancestors(nodes, n))] = root_node(nodes, n)
        /\ Head(descendants(nodes, n)) = n
        /\ descendants(nodes, n) =
               <<n>> \o descendants_of_all(nodes, nodes[n].child_list)

----------------------------------------------------------------------------
\* what a stored value shows: the content of the live object it is, if it is
\* one, and itself otherwise
Display(ob, v) == IF v \in DOMAIN ob THEN ob[v] ELSE v

\* the arguments and results the records and the leaves of the log show
Shown(ns, is, ob) ==
    [records |-> [i \in 1..Len(is) |->
                     [vargs |-> [j \in 1..Len(is[i].vargs) |-> Display(ob, is[i].vargs[j])],
                      returned |-> Display(ob, is[i].returned)]],
     leaves |-> [n \in 1..Len(ns) |-> Display(ob, ns[n].value.py)]]

(* C18. Snapshot independence: the arguments a record stores are what the  *)
(* live arguments were when log_call was entered, the returned value it    *)
(* stores is what the live result was when the function returned, and an   *)
(* append to a live object, during the call or after it, changes nothing   *)
(* of what the records and the leaves of the log show.                     *)
C18_Snapshots ==
    [][/\ \A vargs \in SnapArgs :
              (LogCall(PyNone, "f", vargs, << >>) /\ Entered) =>
                  infos'[Len(infos')].vargs =
                      [j \in 1..Len(vargs) |-> Display(objs, vargs[j])]
       /\ \A r \in SnapResults \ {PyNone} :
              Returned(r) =>
                  /\ infos'[Top.ci].returned = Display(objs, r)
                  /\ nodes'[Len(nodes')].value = PyValue(Display(objs, r))
                  /\ result'.val = r
       /\ objs' # objs =>
              Shown(nodes', infos', objs') = Shown(nodes, infos, objs)
       /\ Shown(nodes', infos', objs')
              = Shown(nodes', infos', [o \in DOMAIN objs |-> "gone"])
      ]_vars

\* f(xs) was entered with xs = [1], appended to xs and returned it; its caller
\* appended to it once more
C18_Witness ==
    /\ stack = << >> /\ Len(infos) = 1
    /\ infos[1].vargs = <<Grown(0)>>
    /\ infos[1].returned = Grown(1)
    /\ nodes[3].value = PyValue(Grown(1))
    /\ objs["xs"] = Grown(2)

----------------------------------------------------------------------------
(* C19. The guard of TracerProxy.__reduce_ex__ is released on every exit   *)
(* path. Where only log_call is called (SpecCalls), suspend() and          *)
(* unsuspend() are called by __reduce_ex__ alone, during the deep copy of  *)
(* a proxy, and every such copy is over at the end of the step that makes  *)
(* it: is_suspended is what it was before, 0, in every state.              *)
C19_GuardReleased == is_suspended = 0

----------------------------------------------------------------------------
\* node n is the log's root or below it: clear_call_tree has not discarded it
NotDiscarded(n) == n \in Range(descendants(nodes, call_tree))

(* C20. Cursor validity: with nested log_call invocations and              *)
(* clear_call_tree() called at any point, also by a wrapped function in    *)
(* progress, the cursor is never None and always is the log's root or one  *)
(* of its descendants.                                                     *)
C20_CursorValid == current_node # NoneNode /\ NotDiscarded(current_node)

====

